---- MODULE Spec2Model ----
(***************************************************************************)
(* A model of the governance process of src/governance/governance.py:      *)
(* the driver governance_process and its four components select_decision,  *)
(* select_group, make_decision and update_opinions.                        *)
(*                                                                         *)
(* numpy arrays are records [rows, cols, at] with at a function over the   *)
(* index pairs.  Opinion values are exact rationals <<p, q>> (q > 0, in    *)
(* lowest terms); <<0, 0>> stands for NaN.  Random draws are               *)
(* nondeterministic choices over every value the draw can return.          *)
(***************************************************************************)
EXTENDS Integers, FiniteSets, Sequences, TLC

\* ------------------------------------------------------------------ bounds
MaxN == 2
MaxD == 2
MaxSize == 2
MaxSnowballD == 3
MaxRounds == 3

\* ------------------------------------------------------------- arithmetic
Abs(x) == IF x < 0 THEN -x ELSE x

Min(a, b) == IF a < b THEN a ELSE b

Sign(x) == IF x > 0 THEN 1 ELSE IF x < 0 THEN -1 ELSE 0

RECURSIVE GCD(_, _)
GCD(a, b) == IF b = 0 THEN a ELSE GCD(b, a % b)

NaN == <<0, 0>>

IsNaN(a) == a[2] = 0

Norm(p, q) == IF q = 0 THEN NaN ELSE LET k == GCD(Abs(p), q) IN <<p \div k, q \div k>>

Rat(i) == <<i, 1>>

RAdd(a, b) == IF IsNaN(a) \/ IsNaN(b) THEN NaN ELSE Norm(a[1] * b[2] + b[1] * a[2], a[2] * b[2])

RSub(a, b) == IF IsNaN(a) \/ IsNaN(b) THEN NaN ELSE Norm(a[1] * b[2] - b[1] * a[2], a[2] * b[2])

RAbs(a) == <<Abs(a[1]), a[2]>>

\* x / k for a count k; 0 / 0 is NaN as in numpy
RDiv(a, b) == IF IsNaN(a) \/ IsNaN(b) \/ b[1] = 0 THEN NaN ELSE Norm(a[1] * b[2] * Sign(b[1]), a[2] * Abs(b[1]))

\* a < b; every comparison with NaN is false
RLess(a, b) == ~IsNaN(a) /\ ~IsNaN(b) /\ a[1] * b[2] < b[1] * a[2]

RLeq(a, b) == ~IsNaN(a) /\ ~IsNaN(b) /\ a[1] * b[2] <= b[1] * a[2]

\* the sum of f over the finite set S
RECURSIVE RSum(_, _)
RSum(f, S) == IF S = {} THEN Rat(0) ELSE LET x == CHOOSE y \in S : TRUE IN RAdd(f[x], RSum(f, S \ {x}))

\* ----------------------------------------------------------------- arrays
Idx(r, c) == (0 .. r - 1) \X (0 .. c - 1)

Matrices(r, c, V) == {[rows |-> r, cols |-> c, at |-> f] : f \in [Idx(r, c) -> V]}

IsSymmetric(m) == m.rows = m.cols /\ \A i, k \in 0 .. m.rows - 1 : m.at[<<i, k>>] = m.at[<<k, i>>]

\* the symmetric dd x dd arrays, each built from its upper triangle
SymMatrices(dd, V) ==
    {[rows |-> dd, cols |-> dd,
      at |-> [x \in Idx(dd, dd) |-> IF x[1] <= x[2] THEN f[x] ELSE f[<<x[2], x[1]>>]]] :
        f \in [{x \in Idx(dd, dd) : x[1] <= x[2]} -> V]}

\* the arrays with one value in every entry
ConstMatrices(r, c, V) == {[rows |-> r, cols |-> c, at |-> [x \in Idx(r, c) |-> v]] : v \in V}

\* ------------------------------------------------------- component results
\* what a call does: it returns one of vals, or it raises exc
Returns(S) == [exc |-> "", vals |-> S]

Raises(e) == [exc |-> e, vals |-> {}]

\* random.choice(list(S))
random_choice(S) == IF S = {} THEN Raises("IndexError") ELSE Returns(S)

\* np.random.choice(list(U), size=None, replace=True, p=w[U] / np.sum(w[U]))
np_random_choice(U, w) ==
    LET total == RSum(w, U)
        p == [u \in U |-> RDiv(w[u], total)]
    IN IF U = {} \/ \E u \in U : IsNaN(p[u]) THEN Raises("ValueError")
       ELSE Returns({u \in U : RLess(Rat(0), p[u])})

\* random.sample(list(S), k), as the sets of members of the sample
random_sample(S, k) == IF k < 0 \/ k > Cardinality(S) THEN Raises("ValueError")
                       ELSE Returns({T \in SUBSET S : Cardinality(T) = k})

\* ------------------------------------------------------- select_decision
\* np.where(decision_matrix[dec] != 0)[0]
neigh_dec(decision_matrix, dec) == {k \in 0 .. decision_matrix.cols - 1 : decision_matrix.at[<<dec, k>>] # 0}

\* np.mean(np.abs(opinions), axis=0)
xavg(opinions) ==
    [k \in 0 .. opinions.cols - 1 |->
        RDiv(RSum([i \in 0 .. opinions.rows - 1 |-> RAbs(opinions.at[<<i, k>>])], 0 .. opinions.rows - 1),
             Rat(opinions.rows))]

\* np.sum(np.abs(decision_matrix), axis=0)
degree(decision_matrix) ==
    [k \in 0 .. decision_matrix.cols - 1 |->
        RSum([i \in 0 .. decision_matrix.rows - 1 |-> Rat(Abs(decision_matrix.at[<<i, k>>]))],
             0 .. decision_matrix.rows - 1)]

\* a variant of the pool that holds every issue, related or not
snowball_pool_all(completed, decision_matrix) == 0 .. decision_matrix.cols - 1

\* a variant that forgets the decisions already made
unmade_decisions_all(decisions, completed) == decisions

unmade_decisions(decisions, completed) == decisions \ DOMAIN completed

snowball_pool(completed, decision_matrix) == UNION {neigh_dec(decision_matrix, dec) : dec \in DOMAIN completed}

select_decision(decisions, completed, decision_matrix, opinions, how) ==
    LET unmade == unmade_decisions(decisions, completed)
    IN CASE how = "random" -> random_choice(unmade)
         [] how = "sentiment" ->
              IF \E u \in unmade : u >= opinions.cols THEN Raises("IndexError")
              ELSE np_random_choice(unmade, xavg(opinions))
         [] how = "degree" ->
              IF \E u \in unmade : u >= decision_matrix.cols THEN Raises("IndexError")
              ELSE np_random_choice(unmade, degree(decision_matrix))
         [] how = "snowball" ->
              IF DOMAIN completed = {} THEN random_choice(unmade)
              ELSE IF \E dec \in DOMAIN completed : dec >= decision_matrix.rows THEN Raises("IndexError")
              ELSE random_choice(snowball_pool(completed, decision_matrix) \cap unmade)
         [] OTHER -> Raises("Exception")

\* ---------------------------------------------------------- select_group
\* groups.nodes: every stakeholder of some hyperedge
hypergraph_nodes(groups) == UNION {groups[e] : e \in DOMAIN groups}

\* a variant that takes the stakeholders of every hyperedge, related or not
star_old_nodes_all(decision, decision_matrix, groups) ==
    UNION {groups[e] : e \in DOMAIN groups}

\* the stakeholders of the hyperedges of the completed decisions related to decision
star_old_nodes(decision, decision_matrix, groups) ==
    UNION {groups[e] : e \in neigh_dec(decision_matrix, decision) \cap DOMAIN groups}

\* a variant that takes size new stakeholders whatever the number of old ones taken
sample_group_uncapped(size, overlap, old_nodes, n) ==
    LET new_nodes == (0 .. n - 1) \ old_nodes
        num_old_nodes == Min(overlap, Cardinality(old_nodes))
        num_new_nodes == Min(size, Cardinality(new_nodes))
        g1 == random_sample(new_nodes, num_new_nodes)
        g2 == random_sample(old_nodes, num_old_nodes)
    IN IF g1.exc # "" THEN g1
       ELSE IF g2.exc # "" THEN g2
       ELSE Returns({a \cup b : a \in g1.vals, b \in g2.vals})

sample_group(size, overlap, old_nodes, n) ==
    LET new_nodes == (0 .. n - 1) \ old_nodes
        num_old_nodes == Min(overlap, Cardinality(old_nodes))
        num_new_nodes == Min(size - num_old_nodes, Cardinality(new_nodes))
        g1 == random_sample(new_nodes, num_new_nodes)
        g2 == random_sample(old_nodes, num_old_nodes)
    IN IF g1.exc # "" THEN g1
       ELSE IF g2.exc # "" THEN g2
       ELSE Returns({a \cup b : a \in g1.vals, b \in g2.vals})

select_group(size, overlap, decision, decision_matrix, opinions, groups, how) ==
    CASE how = "random" -> sample_group(size, overlap, hypergraph_nodes(groups), opinions.rows)
      [] how = "star" ->
           IF decision >= decision_matrix.rows THEN Raises("IndexError")
           ELSE sample_group(size, overlap, star_old_nodes(decision, decision_matrix, groups), opinions.rows)
      [] OTHER -> Raises("Exception")

\* --------------------------------------------------------- make_decision
\* opinions[g].mean(axis=0)
avg_opinions(opinions, g) ==
    [k \in 0 .. opinions.cols - 1 |->
        RDiv(RSum([i \in g |-> opinions.at[<<i, k>>]], g), Rat(Cardinality(g)))]

\* np.sum(np.abs(ds[idx] - avg_opinions[idx])) for ds = decision_matrix[decision] * d
cost_function(decision, decision_matrix, avg, d) ==
    LET idx == neigh_dec(decision_matrix, decision)
    IN RSum([k \in idx |-> RAbs(RSub(Rat(decision_matrix.at[<<decision, k>>] * d), avg[k]))], idx)

\* a variant that takes the index of the largest cost
argmax2(c1, c2) == IF RLess(c1, c2) THEN 1 ELSE 0

\* np.argmin over [c1, c2] (0-based): the first NaN if there is one, else the first minimum
argmin2(c1, c2) == IF IsNaN(c1) THEN 0 ELSE IF IsNaN(c2) THEN 1 ELSE IF RLess(c2, c1) THEN 1 ELSE 0

possible_decisions == <<-1, 1>>

make_decision(decision, decision_group, decision_matrix, opinions, how) ==
    CASE how = "average" ->
           Returns({Sign(RSum([s \in decision_group |-> opinions.at[<<s, decision>>]], decision_group)[1])})
      [] how = "star" ->
           LET avg == avg_opinions(opinions, decision_group)
               i == argmin2(cost_function(decision, decision_matrix, avg, possible_decisions[1]),
                            cost_function(decision, decision_matrix, avg, possible_decisions[2]))
           IN Returns({possible_decisions[i + 1]})
      [] OTHER -> Raises("Exception")

\* ------------------------------------------------------- update_opinions
\* a variant that averages the opinions of the first issue alone
group_mean_column(opinions, g) ==
    RDiv(RSum([i \in g |-> opinions.at[<<i, 0>>]], g), Rat(Cardinality(g)))

\* a variant that sums the opinions instead of averaging them
group_sum(opinions, g) ==
    LET cells == g \X (0 .. opinions.cols - 1)
    IN RSum([c \in cells |-> opinions.at[c]], cells)

\* np.mean(opinions[g, :])
group_mean(opinions, g) ==
    LET cells == g \X (0 .. opinions.cols - 1)
    IN RDiv(RSum([c \in cells |-> opinions.at[c]], cells), Rat(Cardinality(cells)))

\* decision_matrix[decision] * choice
ds(decision, decision_matrix, choice) == [k \in 0 .. decision_matrix.cols - 1 |-> decision_matrix.at[<<decision, k>>] * choice]

\* a variant that selects every issue
star_idx_all(decision, decision_matrix, choice) == 0 .. decision_matrix.cols - 1

\* np.where(ds != 0)
star_idx(decision, decision_matrix, choice) ==
    {k \in 0 .. decision_matrix.cols - 1 : ds(decision, decision_matrix, choice)[k] # 0}

\* the value the star update writes into opinions[i, idx]
star_value(decision, decision_matrix, choice) == Rat(ds(decision, decision_matrix, choice)[decision])

update_opinions(opinions, decision_group, choice, decision, decision_matrix, how) ==
    CASE how = "average" ->
           LET m == group_mean(opinions, decision_group)
           IN Returns({[opinions EXCEPT !.at = [c \in DOMAIN opinions.at |-> IF c[1] \in decision_group THEN m ELSE opinions.at[c]]]})
      [] how = "star" ->
           LET idx == star_idx(decision, decision_matrix, choice)
               v == star_value(decision, decision_matrix, choice)
           IN Returns({[opinions EXCEPT !.at = [c \in DOMAIN opinions.at |->
                          IF c[1] \in decision_group /\ c[2] \in idx THEN v ELSE opinions.at[c]]]})
      [] OTHER -> Raises("Exception")

\* ------------------------------------------------------------------ state
VARIABLES
    pc,                     \* where the call is: the driver's position, or a component call's outcome
    err,                    \* the exception that ended the call, "" if none
    initial_opinions,       \* the caller's opinion array
    opinions,               \* the working opinion array (mutated in place by update_opinions)
    decision_matrix,        \* the relationship matrix
    group_size,
    group_overlap,
    select_decision_type,
    select_group_type,
    make_decision_type,
    update_opinions_type,
    completed_decisions,    \* dict: decision -> choice
    groups,                 \* xgi.Hypergraph: hyperedge id -> members
    decision,               \* the decision selected
    g,                      \* the group selected
    choice,                 \* the outcome of make_decision
    rounds                  \* iterations of the while loop begun

vars == <<pc, err, initial_opinions, opinions, decision_matrix, group_size, group_overlap,
          select_decision_type, select_group_type, make_decision_type, update_opinions_type,
          completed_decisions, groups, decision, g, choice, rounds>>

\* ------------------------------------------------------ governance_process
DecisionTypes == {"random", "sentiment", "degree", "snowball"}

GroupTypes == {"random", "star"}

MakeTypes == {"average", "star"}

UpdateTypes == {"average", "star"}

\* the entries of a relationship matrix, and the opinion values the inputs are drawn from
Relations == {-1, 0, 1}

OpinionValues == {Rat(-1), Rat(0), Rat(1)}

\* the inputs of the driver: shapes that pass and shapes that fail the validation
DriverMatrices == UNION {ConstMatrices(d1, d2, Relations) : d1 \in 0 .. MaxD, d2 \in 0 .. MaxD}

DriverOpinions == UNION {ConstMatrices(n, d, OpinionValues) : n \in 1 .. MaxN, d \in 0 .. MaxD}

NoArray == [rows |-> 0, cols |-> 0, at |-> << >>]

Init ==
    /\ pc = "start"
    /\ err = ""
    /\ initial_opinions \in DriverOpinions
    /\ opinions = NoArray
    /\ decision_matrix \in DriverMatrices
    /\ group_size \in 0 .. MaxSize
    /\ group_overlap \in 0 .. MaxSize + 1
    /\ select_decision_type \in DecisionTypes
    /\ select_group_type \in GroupTypes
    /\ make_decision_type \in MakeTypes
    /\ update_opinions_type \in UpdateTypes
    /\ completed_decisions = << >>
    /\ groups = << >>
    /\ decision = -1
    /\ g = {}
    /\ choice = 0
    /\ rounds = 0

\* a variant without the check of the overlap
validation_error_shapes(d, d1, d2, overlap, size) ==
    IF d1 # d2 THEN "Exception"
    ELSE IF d # d1 THEN "Exception"
    ELSE ""

\* the three checks of lines 68-77: the exception raised, "" if the configuration passes
validation_error(d, d1, d2, overlap, size) ==
    IF d1 # d2 THEN "Exception"
    ELSE IF d # d1 THEN "Exception"
    ELSE IF overlap > size THEN "Exception"
    ELSE ""

\* lines 64-84: copy the opinions, validate, create the empty history and hypergraph
Validate ==
    /\ pc = "start"
    /\ opinions' = initial_opinions
    /\ IF validation_error(initial_opinions.cols, decision_matrix.rows, decision_matrix.cols,
                           group_overlap, group_size) # ""
       THEN /\ pc' = "failed"
            /\ err' = "Exception"
       ELSE /\ pc' = "loop"
            /\ err' = ""
    /\ completed_decisions' = << >>
    /\ groups' = << >>
    /\ UNCHANGED <<initial_opinions, decision_matrix, group_size, group_overlap,
                   select_decision_type, select_group_type, make_decision_type, update_opinions_type,
                   decision, g, choice, rounds>>

\* line 85 true, lines 87-93: a round begins with the call of select_decision
SelectDecisionStep ==
    /\ pc = "loop"
    /\ Cardinality(DOMAIN completed_decisions) < opinions.cols
    /\ rounds' = rounds + 1
    /\ LET r == select_decision(0 .. opinions.cols - 1, completed_decisions, decision_matrix,
                                opinions, select_decision_type)
       IN IF r.exc # ""
          THEN /\ pc' = "failed"
               /\ err' = r.exc
               /\ UNCHANGED decision
          ELSE /\ pc' = "select_group"
               /\ decision' \in r.vals
               /\ UNCHANGED err
    /\ UNCHANGED <<initial_opinions, opinions, decision_matrix, group_size, group_overlap,
                   select_decision_type, select_group_type, make_decision_type, update_opinions_type,
                   completed_decisions, groups, g, choice>>

\* the parameters of select_group (line 208), without **args
select_group_params == <<"size", "overlap", "decision", "decision_matrix", "opinions", "groups", "how">>

\* the call of lines 96-105: its positional arguments and its keyword argument
select_group_call == [positional |-> <<"nodes", "group_size", "group_overlap", "decision", "decision_matrix",
                                       "opinions", "groups">>,
                      keywords |-> {"how"}]

\* Python's binding of a call to a signature with **kwargs: a TypeError when there are more
\* positional arguments than parameters, or a keyword names a parameter bound by position
binding_error(params, call) ==
    \/ Len(call.positional) > Len(params)
    \/ \E i \in 1 .. Len(call.positional) : i <= Len(params) /\ params[i] \in call.keywords

\* lines 96-105: the call of select_group, which does not bind
SelectGroupStep ==
    /\ pc = "select_group"
    /\ binding_error(select_group_params, select_group_call)
    /\ pc' = "failed"
    /\ err' = "TypeError"
    /\ UNCHANGED <<initial_opinions, opinions, decision_matrix, group_size, group_overlap,
                   select_decision_type, select_group_type, make_decision_type, update_opinions_type,
                   completed_decisions, groups, decision, g, choice, rounds>>

\* line 85 false, line 126: the history, the opinions and the hypergraph are returned
Return ==
    /\ pc = "loop"
    /\ ~(Cardinality(DOMAIN completed_decisions) < opinions.cols)
    /\ pc' = "done"
    /\ UNCHANGED <<err, initial_opinions, opinions, decision_matrix, group_size, group_overlap,
                   select_decision_type, select_group_type, make_decision_type, update_opinions_type,
                   completed_decisions, groups, decision, g, choice, rounds>>

Next == Validate \/ SelectDecisionStep \/ SelectGroupStep \/ Return

Spec == Init /\ [][Next]_vars

\* ------------------------------------------------- the components, called
\* Each component is a public function of the module.  The specifications below
\* call one component on arguments drawn from bounded sets; an argument that the
\* strategy called does not read is drawn from the constant arrays.

\* a dict of completed decisions over the issues 0 .. d - 1
Histories(d) == UNION {[K -> {-1, 1}] : K \in SUBSET (0 .. d - 1)}

\* a hypergraph of non-empty groups of the stakeholders 0 .. n - 1, its hyperedge ids issues
Hypergraphs(n, d) == UNION {[E -> (SUBSET (0 .. n - 1)) \ {{}}] : E \in SUBSET (0 .. d - 1)}

\* ---- select_decision
InitDecision ==
    /\ pc = "call"
    /\ err = ""
    /\ select_decision_type \in DecisionTypes
    /\ \E n \in 1 .. MaxN, d \in 1 .. MaxD :
         /\ opinions \in IF select_decision_type = "sentiment" THEN Matrices(n, d, OpinionValues)
                         ELSE ConstMatrices(n, d, {Rat(0)})
         /\ decision_matrix \in IF select_decision_type \in {"degree", "snowball"} THEN SymMatrices(d, Relations)
                                ELSE ConstMatrices(d, d, {0})
         /\ completed_decisions \in Histories(d)
    /\ initial_opinions = opinions
    /\ group_size = 0
    /\ group_overlap = 0
    /\ select_group_type = "random"
    /\ make_decision_type = "average"
    /\ update_opinions_type = "average"
    /\ groups = << >>
    /\ decision = -1
    /\ g = {}
    /\ choice = 0
    /\ rounds = 0

CallSelectDecision ==
    /\ pc = "call"
    /\ LET r == select_decision(0 .. opinions.cols - 1, completed_decisions, decision_matrix,
                                opinions, select_decision_type)
       IN IF r.exc # ""
          THEN /\ pc' = "raised"
               /\ err' = r.exc
               /\ UNCHANGED decision
          ELSE /\ pc' = "returned"
               /\ err' = ""
               /\ decision' \in r.vals
    /\ UNCHANGED <<initial_opinions, opinions, decision_matrix, group_size, group_overlap,
                   select_decision_type, select_group_type, make_decision_type, update_opinions_type,
                   completed_decisions, groups, g, choice, rounds>>

SpecDecision == InitDecision /\ [][CallSelectDecision]_vars

\* ---- select_decision, strategy snowball, over more issues (neither the opinions nor the
\* values of the dict are read)
InitSnowball ==
    /\ pc = "call"
    /\ err = ""
    /\ select_decision_type = "snowball"
    /\ \E d \in 1 .. MaxSnowballD :
         /\ opinions \in ConstMatrices(1, d, {Rat(0)})
         /\ decision_matrix \in SymMatrices(d, Relations)
         /\ completed_decisions \in UNION {[K -> {1}] : K \in SUBSET (0 .. d - 1)}
    /\ initial_opinions = opinions
    /\ group_size = 0
    /\ group_overlap = 0
    /\ select_group_type = "random"
    /\ make_decision_type = "average"
    /\ update_opinions_type = "average"
    /\ groups = << >>
    /\ decision = -1
    /\ g = {}
    /\ choice = 0
    /\ rounds = 0

SpecSnowball == InitSnowball /\ [][CallSelectDecision]_vars

\* ---- select_group
GroupRelations == {0, 1}

InitGroup ==
    /\ pc = "call"
    /\ err = ""
    /\ select_group_type \in GroupTypes
    /\ group_size \in 0 .. MaxSize
    /\ group_overlap \in 0 .. MaxSize + 1
    /\ \E n \in 1 .. MaxN, d \in 1 .. MaxD :
         /\ opinions \in ConstMatrices(n, d, {Rat(0)})
         /\ decision_matrix \in IF select_group_type = "star" THEN SymMatrices(d, GroupRelations)
                                ELSE ConstMatrices(d, d, {0})
         /\ groups \in Hypergraphs(n, d)
         /\ decision \in 0 .. d - 1
    /\ initial_opinions = opinions
    /\ select_decision_type = "random"
    /\ make_decision_type = "average"
    /\ update_opinions_type = "average"
    /\ completed_decisions = << >>
    /\ g = {}
    /\ choice = 0
    /\ rounds = 0

CallSelectGroup ==
    /\ pc = "call"
    /\ LET r == select_group(group_size, group_overlap, decision, decision_matrix, opinions, groups,
                             select_group_type)
       IN IF r.exc # ""
          THEN /\ pc' = "raised"
               /\ err' = r.exc
               /\ UNCHANGED g
          ELSE /\ pc' = "returned"
               /\ err' = ""
               /\ g' \in r.vals
    /\ UNCHANGED <<initial_opinions, opinions, decision_matrix, group_size, group_overlap,
                   select_decision_type, select_group_type, make_decision_type, update_opinions_type,
                   completed_decisions, groups, decision, choice, rounds>>

SpecGroup == InitGroup /\ [][CallSelectGroup]_vars

\* ---- make_decision
InitResolve ==
    /\ pc = "call"
    /\ err = ""
    /\ make_decision_type \in MakeTypes
    /\ \E n \in 1 .. MaxN, d \in 1 .. MaxD :
         /\ opinions \in Matrices(n, d, OpinionValues)
         /\ decision_matrix \in IF make_decision_type = "star" THEN SymMatrices(d, Relations)
                                ELSE ConstMatrices(d, d, {0})
         /\ decision \in 0 .. d - 1
         /\ g \in SUBSET (0 .. n - 1)
    /\ initial_opinions = opinions
    /\ group_size = 0
    /\ group_overlap = 0
    /\ select_decision_type = "random"
    /\ select_group_type = "random"
    /\ update_opinions_type = "average"
    /\ completed_decisions = << >>
    /\ groups = << >>
    /\ choice = 0
    /\ rounds = 0

CallMakeDecision ==
    /\ pc = "call"
    /\ LET r == make_decision(decision, g, decision_matrix, opinions, make_decision_type)
       IN IF r.exc # ""
          THEN /\ pc' = "raised"
               /\ err' = r.exc
               /\ UNCHANGED choice
          ELSE /\ pc' = "returned"
               /\ err' = ""
               /\ choice' \in r.vals
    /\ UNCHANGED <<initial_opinions, opinions, decision_matrix, group_size, group_overlap,
                   select_decision_type, select_group_type, make_decision_type, update_opinions_type,
                   completed_decisions, groups, decision, g, rounds>>

SpecResolve == InitResolve /\ [][CallMakeDecision]_vars

\* ---- make_decision, how = "star": the arguments differ in what the strategy reads,
\* the rows of the group and the row of the decision
GroupMatrices(n, d, grp, V) ==
    {[rows |-> n, cols |-> d,
      at |-> [x \in Idx(n, d) |-> IF x[1] \in grp THEN f[x] ELSE Rat(0)]] :
        f \in [grp \X (0 .. d - 1) -> V]}

StarMatrices(d, dec, V) ==
    {[rows |-> d, cols |-> d,
      at |-> [x \in Idx(d, d) |-> IF x[1] = dec THEN row[x[2]]
                                  ELSE IF x[2] = dec THEN row[x[1]] ELSE 0]] :
        row \in [0 .. d - 1 -> V]}

InitStarVote ==
    /\ pc = "call"
    /\ err = ""
    /\ make_decision_type = "star"
    /\ \E n \in 1 .. MaxN, d \in 1 .. MaxD :
         /\ decision \in 0 .. d - 1
         /\ g \in SUBSET (0 .. n - 1)
         /\ opinions \in GroupMatrices(n, d, g, OpinionValues)
         /\ decision_matrix \in StarMatrices(d, decision, Relations)
    /\ initial_opinions = opinions
    /\ group_size = 0
    /\ group_overlap = 0
    /\ select_decision_type = "random"
    /\ select_group_type = "random"
    /\ update_opinions_type = "average"
    /\ completed_decisions = << >>
    /\ groups = << >>
    /\ choice = 0
    /\ rounds = 0

SpecStarVote == InitStarVote /\ [][CallMakeDecision]_vars

\* ---- update_opinions
\* the opinion arrays whose rows are constant
RowConstMatrices(n, d, V) ==
    {[rows |-> n, cols |-> d, at |-> [x \in Idx(n, d) |-> row[x[1]]]] : row \in [0 .. n - 1 -> V]}

InitUpdate ==
    /\ pc = "call"
    /\ err = ""
    /\ update_opinions_type \in UpdateTypes
    /\ \E n \in 1 .. MaxN, d \in 1 .. MaxD :
         /\ opinions \in IF update_opinions_type = "average" THEN Matrices(n, d, OpinionValues)
                         ELSE RowConstMatrices(n, d, OpinionValues)
         /\ decision_matrix \in IF update_opinions_type = "star" THEN SymMatrices(d, Relations)
                                ELSE ConstMatrices(d, d, {0})
         /\ decision \in 0 .. d - 1
         /\ g \in SUBSET (0 .. n - 1)
    /\ choice \in {-1, 1}
    /\ initial_opinions = opinions
    /\ group_size = 0
    /\ group_overlap = 0
    /\ select_decision_type = "random"
    /\ select_group_type = "random"
    /\ make_decision_type = "average"
    /\ completed_decisions = << >>
    /\ groups = << >>
    /\ rounds = 0

\* the array is updated in place; initial_opinions keeps the array as it was before the call
CallUpdateOpinions ==
    /\ pc = "call"
    /\ LET r == update_opinions(opinions, g, choice, decision, decision_matrix, update_opinions_type)
       IN IF r.exc # ""
          THEN /\ pc' = "raised"
               /\ err' = r.exc
               /\ UNCHANGED opinions
          ELSE /\ pc' = "returned"
               /\ err' = ""
               /\ opinions' \in r.vals
    /\ UNCHANGED <<initial_opinions, decision_matrix, group_size, group_overlap,
                   select_decision_type, select_group_type, make_decision_type, update_opinions_type,
                   completed_decisions, groups, decision, g, choice, rounds>>

SpecUpdate == InitUpdate /\ [][CallUpdateOpinions]_vars

\* ---- update_opinions, round after round on the same array
\* the outcomes make_decision can return (0 for the average of a zero sum)
Choices == {-1, 0, 1}

InitRounds ==
    /\ pc = "call"
    /\ err = ""
    /\ update_opinions_type \in UpdateTypes
    /\ \E n \in 1 .. MaxN, d \in 1 .. MaxD :
         /\ opinions \in RowConstMatrices(n, d, OpinionValues)
         /\ decision_matrix \in IF update_opinions_type = "star" THEN SymMatrices(d, Relations)
                                ELSE ConstMatrices(d, d, {0})
    /\ initial_opinions = opinions
    /\ group_size = 0
    /\ group_overlap = 0
    /\ select_decision_type = "random"
    /\ select_group_type = "random"
    /\ make_decision_type = "average"
    /\ completed_decisions = << >>
    /\ groups = << >>
    /\ decision = -1
    /\ g = {}
    /\ choice = 0
    /\ rounds = 0

\* one more call of update_opinions on the array the last call left, for some group,
\* outcome and decision
UpdateRound ==
    /\ pc \in {"call", "returned"}
    /\ rounds < MaxRounds
    /\ \E grp \in SUBSET (0 .. opinions.rows - 1), c \in Choices, dec \in 0 .. opinions.cols - 1 :
         LET r == update_opinions(opinions, grp, c, dec, decision_matrix, update_opinions_type)
         IN IF r.exc # ""
            THEN /\ pc' = "raised"
                 /\ err' = r.exc
                 /\ UNCHANGED opinions
            ELSE /\ pc' = "returned"
                 /\ err' = ""
                 /\ opinions' \in r.vals
    /\ rounds' = rounds + 1
    /\ UNCHANGED <<initial_opinions, decision_matrix, group_size, group_overlap,
                   select_decision_type, select_group_type, make_decision_type, update_opinions_type,
                   completed_decisions, groups, decision, g, choice>>

SpecRounds == InitRounds /\ [][UpdateRound]_vars

\* ----------------------------------------------------------------- claims
Issues == 0 .. opinions.cols - 1

Stakeholders == 0 .. opinions.rows - 1

ValidConfiguration ==
    /\ decision_matrix.rows = decision_matrix.cols
    /\ initial_opinions.cols = decision_matrix.rows
    /\ 0 <= group_overlap
    /\ group_overlap <= group_size

\* a call of select_decision has raised (the cases of C8 and C9)
SelectDecisionRaised == pc = "failed" /\ rounds > 0 /\ err # "TypeError"

\* C1: for every valid configuration governance_process ends by returning, after exactly
\* D rounds, a history whose keys are all the issues 0 .. D - 1 (stated for the runs in
\* which select_decision does not raise).
C1_TerminatesAfterDRounds ==
    (ValidConfiguration /\ pc \in {"done", "failed"} /\ ~SelectDecisionRaised) =>
        /\ pc = "done"
        /\ rounds = initial_opinions.cols
        /\ DOMAIN completed_decisions = 0 .. initial_opinions.cols - 1

\* C2: the decision select_decision returns, under every strategy, is an issue that is
\* not a key of completed_decisions.
C2_NoDoubleDecision ==
    pc = "returned" => decision \in Issues /\ decision \notin DOMAIN completed_decisions

C2_Witness ==
    /\ pc = "returned"
    /\ select_decision_type = "snowball"
    /\ DOMAIN completed_decisions # {}
    /\ Cardinality(snowball_pool(completed_decisions, decision_matrix)) > 1

\* C3: every iteration of the loop adds one entry to the history and one hyperedge to the
\* hypergraph: between iterations both hold as many entries as iterations were run (stated
\* for the runs in which select_decision does not raise).
C3_OneEntryPerRound ==
    (pc \in {"loop", "done", "failed"} /\ ~SelectDecisionRaised) =>
        /\ Cardinality(DOMAIN completed_decisions) = rounds
        /\ Cardinality(DOMAIN groups) = rounds

\* the stakeholders select_group takes the overlap from, and the others
C4_old == IF select_group_type = "random" THEN UNION {groups[e] : e \in DOMAIN groups}
          ELSE UNION {groups[e] : e \in {k \in DOMAIN groups : decision_matrix.at[<<decision, k>>] # 0}}

C4_new == Stakeholders \ C4_old

\* C4 as stated: with 0 <= overlap <= size the group has at most size members, and exactly
\* size members whenever N >= size.
C4_Original ==
    (pc = "returned" /\ 0 <= group_overlap /\ group_overlap <= group_size) =>
        /\ Cardinality(g) <= group_size
        /\ opinions.rows >= group_size => Cardinality(g) = group_size

\* C4 amended: with 0 <= overlap <= size the group has at most size members, and exactly
\* size members whenever at least size - min(overlap, |old|) stakeholders are not in old.
C4_GroupSize ==
    (pc = "returned" /\ 0 <= group_overlap /\ group_overlap <= group_size) =>
        /\ Cardinality(g) <= group_size
        /\ Cardinality(C4_new) >= group_size - Min(group_overlap, Cardinality(C4_old))
              => Cardinality(g) = group_size

C4_Witness ==
    /\ pc = "returned"
    /\ group_overlap <= group_size
    /\ g \cap C4_old # {}
    /\ g \ C4_old # {}
    /\ Cardinality(g) = group_size

\* C5: make_decision returns -1 or +1, for each strategy and each (non-empty) group.
C5_OutcomeIsBinary ==
    (pc = "returned" /\ g # {}) => choice \in {-1, 1}

\* C6: after the star update for decision d and outcome c, every member s of the group has
\* opinions[s][k] = decision_matrix[d][k] * c on every issue k with decision_matrix[d][k] # 0.
C6_StarCoherence ==
    (pc = "returned" /\ update_opinions_type = "star") =>
        \A s \in g, k \in Issues :
            decision_matrix.at[<<decision, k>>] # 0 =>
                opinions.at[<<s, k>>] = Rat(decision_matrix.at[<<decision, k>>] * choice)

\* the sum of the entries of the array a over the rows of the group
C7_Total == RSum([c \in g \X Issues |-> initial_opinions.at[c]], g \X Issues)

\* C7: after the average update every member of the group holds, on each of the D issues,
\* the mean of the group's rows of the array as they were before the update.
C7_AverageCollapse ==
    (pc = "returned" /\ update_opinions_type = "average") =>
        \A s \in g, k \in Issues :
            opinions.at[<<s, k>>] = RDiv(C7_Total, Rat(Cardinality(g) * opinions.cols))

C7_Witness ==
    /\ pc = "returned"
    /\ update_opinions_type = "average"
    /\ Cardinality(g) > 1
    /\ opinions.cols > 1
    /\ \E s \in g, k \in Issues : opinions.at[<<s, k>>] # initial_opinions.at[<<s, k>>]
    /\ \E s \in g, k \in Issues : opinions.at[<<s, k>>][2] > 1

C8_Unresolved == Issues \ DOMAIN completed_decisions

C8_Pool == {k \in Issues : \E dec \in DOMAIN completed_decisions : decision_matrix.at[<<dec, k>>] # 0}

\* C8: snowball with a non-empty history, unresolved issues of which none is related to a
\* resolved one: select_decision returns an unresolved issue.
C8_SnowballEmptyPool ==
    (/\ pc # "call"
     /\ select_decision_type = "snowball"
     /\ DOMAIN completed_decisions # {}
     /\ C8_Unresolved # {}
     /\ C8_Pool \cap C8_Unresolved = {}) =>
        pc = "returned" /\ decision \in C8_Unresolved

\* C9: sentiment and degree return an unresolved issue whenever an issue is unresolved,
\* also when every unresolved issue has weight zero.
C9_WeightedReturnsUnresolved ==
    (/\ pc # "call"
     /\ select_decision_type \in {"sentiment", "degree"}
     /\ C8_Unresolved # {}) =>
        pc = "returned" /\ decision \in C8_Unresolved

\* C10: a relationship matrix that is not square, an opinion array whose column count is
\* not D, or an overlap above the group size: governance_process raises before the first
\* round, with an empty history and hypergraph and the opinions as they were passed in.
C10_FailsBeforeFirstRound ==
    (pc # "start" /\ ~(/\ decision_matrix.rows = decision_matrix.cols
                      /\ initial_opinions.cols = decision_matrix.rows
                      /\ group_overlap <= group_size)) =>
        /\ pc = "failed"
        /\ err = "Exception"
        /\ rounds = 0
        /\ DOMAIN completed_decisions = {}
        /\ DOMAIN groups = {}
        /\ opinions = initial_opinions

C10_Witness ==
    /\ pc = "failed"
    /\ rounds = 0
    /\ decision_matrix.rows = decision_matrix.cols
    /\ initial_opinions.cols = decision_matrix.rows
    /\ decision_matrix.rows > 0
    /\ group_overlap > group_size

\* the unresolved issues related to a resolved issue
C11_Candidates ==
    {k \in Issues \ DOMAIN completed_decisions :
        \E dec \in DOMAIN completed_decisions : decision_matrix.at[<<dec, k>>] # 0}

\* C11: snowball with a non-empty history and a non-empty candidate pool returns an
\* unresolved issue related to a resolved issue; a single candidate is the issue returned.
C11_SnowballFromPool ==
    (/\ pc # "call"
     /\ select_decision_type = "snowball"
     /\ DOMAIN completed_decisions # {}
     /\ C11_Candidates # {}) =>
        /\ pc = "returned"
        /\ decision \in C11_Candidates
        /\ Cardinality(C11_Candidates) = 1 => C11_Candidates = {decision}

C11_Witness ==
    /\ pc = "returned"
    /\ select_decision_type = "snowball"
    /\ DOMAIN completed_decisions # {}
    /\ C11_Candidates = {decision}
    /\ Cardinality(Issues \ DOMAIN completed_decisions) > 1


\* a number (not NaN) between -1 and 1
C12_InRange(v) == RLeq(Rat(-1), v) /\ RLeq(v, Rat(1))

\* C12: from initial opinions in [-1, 1], after any number of calls of update_opinions,
\* under either strategy, every entry of the array is a number in [-1, 1] and the array
\* has the shape it started with.
C12_OpinionsStayInRange ==
    /\ opinions.rows = initial_opinions.rows
    /\ opinions.cols = initial_opinions.cols
    /\ DOMAIN opinions.at = Idx(initial_opinions.rows, initial_opinions.cols)
    /\ \A c \in DOMAIN opinions.at : C12_InRange(opinions.at[c])

C12_Witness ==
    /\ pc = "returned"
    /\ rounds >= 2
    /\ update_opinions_type = "average"
    /\ \E c \in DOMAIN opinions.at :
         /\ opinions.at[c] # initial_opinions.at[c]
         /\ opinions.at[c][2] > 1

\* the disagreement cost of outcome c for the group g on the decision: the sum over the
\* related issues k of |decision_matrix[decision][k] * c - (mean opinion of g on k)|
C13_Cost(c) ==
    LET related == {k \in Issues : decision_matrix.at[<<decision, k>>] # 0}
        mean(k) == RDiv(RSum([s \in g |-> opinions.at[<<s, k>>]], g), Rat(Cardinality(g)))
    IN RSum([k \in related |->
                RAbs(RSub(Rat(decision_matrix.at[<<decision, k>>] * c), mean(k)))], related)

\* C13: make_decision with how = "star" returns a candidate of {-1, 1}, and the other
\* candidate never has a strictly smaller cost than the one returned.
C13_StarMinimisesCost ==
    (pc = "returned" /\ make_decision_type = "star") =>
        /\ choice \in {-1, 1}
        /\ ~RLess(C13_Cost(-choice), C13_Cost(choice))

C13_Witness ==
    /\ pc = "returned"
    /\ make_decision_type = "star"
    /\ g # {}
    /\ choice = 1
    /\ RLess(C13_Cost(1), C13_Cost(-1))
    /\ \E k \in Issues \ {decision} : decision_matrix.at[<<decision, k>>] = -1

C14_num_old == Min(group_overlap, Cardinality(C4_old))

\* C14: the group select_group returns consists of exactly min(overlap, |old|) stakeholders
\* of old and exactly min(size - num_old, |new|) stakeholders of new = all stakeholders
\* minus old, where old is every member of a prior group (random) or every member of a
\* prior group whose issue is related to the decision (star).
C14_GroupComposition ==
    pc = "returned" =>
        /\ g \subseteq Stakeholders
        /\ Cardinality(g \cap C4_old) = C14_num_old
        /\ Cardinality(g \cap C4_new) = Min(group_size - C14_num_old, Cardinality(C4_new))

C14_Witness ==
    /\ pc = "returned"
    /\ select_group_type = "star"
    /\ g \cap C4_old # {}
    /\ g \cap C4_new # {}
    /\ \E e \in DOMAIN groups : groups[e] \cap C4_new # {}

\* the entries the star update for the decision may change: those of the members of the
\* group on the issues related to the decision
C15_Touched == {c \in DOMAIN opinions.at : c[1] \in g /\ decision_matrix.at[<<decision, c[2]>>] # 0}

\* C15: update_opinions with how = "star" changes only entries opinions[s][k] with s in the
\* group and decision_matrix[decision][k] # 0; every other entry is as it was before the call.
C15_StarFrame ==
    (pc = "returned" /\ update_opinions_type = "star") =>
        /\ DOMAIN opinions.at = DOMAIN initial_opinions.at
        /\ \A c \in DOMAIN opinions.at \ C15_Touched : opinions.at[c] = initial_opinions.at[c]

C15_Witness ==
    /\ pc = "returned"
    /\ update_opinions_type = "star"
    /\ \E c \in C15_Touched : opinions.at[c] # initial_opinions.at[c]
    /\ \E c \in DOMAIN opinions.at \ C15_Touched : c[1] \in g
    /\ Stakeholders \ g # {}

====
